---- MODULE Spec2Model ----
(***************************************************************************)
(* pmyx: an object facade over the tmux command line (src/pmyx.py).        *)
(*                                                                         *)
(* Text is modelled as a sequence of one-character strings, so that the    *)
(* parsing the library does (strip, split, partition, replace, isdigit)    *)
(* is computed character by character.  Python values are records          *)
(* [t, n, s, d, l]: t is the type tag, n the integer payload, s the string *)
(* payload, d the items of a dict, l the elements of a list.  A raised     *)
(* exception is a record whose tag is the exception's name.                *)
(***************************************************************************)
EXTENDS Integers, Sequences, FiniteSets, TLC

VARIABLES
    srvName,    \* tmux server: the name of each session, by server-side identity
    srvOpts,    \* tmux server: each session's own options
    srvGlobal,  \* tmux server: the global session options
    pyName,     \* the Session object s: its _name field
    pyWins,     \* the Window objects last yielded by s.windows(): their _num fields
    op,         \* the last library operation and its arguments
    argv,       \* the last tmux invocation (the list handed to Popen, binary omitted)
    stdout,     \* the standard output of the last tmux invocation
    ret         \* what the last library operation returned or raised

vars == <<srvName, srvOpts, srvGlobal, pyName, pyWins, op, argv, stdout, ret>>

-----------------------------------------------------------------------------
(* Bounds of the model *)

MaxValLen == 4      \* longest value handed to to_pyval
MaxOutLen == 8      \* longest raw tmux output handed to the parsers

-----------------------------------------------------------------------------
(* Characters and Python's string built-ins *)

NL == "\n"
SP == " "

IsSpace(c) == c \in {SP, NL, "\t", "\r"}

Digits == {"0", "1", "2", "3", "4", "5", "6", "7", "8", "9"}

DigitVal(c) ==
    CASE c = "0" -> 0 [] c = "1" -> 1 [] c = "2" -> 2 [] c = "3" -> 3
      [] c = "4" -> 4 [] c = "5" -> 5 [] c = "6" -> 6 [] c = "7" -> 7
      [] c = "8" -> 8 [] c = "9" -> 9

\* all texts over alphabet A of length at most n
Texts(A, n) == UNION {[1..k -> A] : k \in 0..n}

RECURSIVE LStrip(_)
LStrip(s) == IF s # <<>> /\ IsSpace(Head(s)) THEN LStrip(Tail(s)) ELSE s

RECURSIVE RStrip(_)
RStrip(s) ==
    IF s # <<>> /\ IsSpace(s[Len(s)]) THEN RStrip(SubSeq(s, 1, Len(s) - 1)) ELSE s

\* str.strip()
Strip(s) == RStrip(LStrip(s))

\* index of the first occurrence of character c in s, 0 when there is none
RECURSIVE FindFrom(_, _, _)
FindFrom(s, c, i) ==
    IF i > Len(s) THEN 0 ELSE IF s[i] = c THEN i ELSE FindFrom(s, c, i + 1)

Find(s, c) == FindFrom(s, c, 1)

\* str.split(c) with an explicit one-character separator: never empty
RECURSIVE Split(_, _)
Split(s, c) ==
    LET i == Find(s, c)
    IN  IF i = 0 THEN <<s>>
        ELSE <<SubSeq(s, 1, i - 1)>> \o Split(SubSeq(s, i + 1, Len(s)), c)

\* str.partition(c)[0]
PartitionHead(s, c) ==
    LET i == Find(s, c) IN IF i = 0 THEN s ELSE SubSeq(s, 1, i - 1)

\* c.join(parts)
RECURSIVE Join(_, _)
Join(parts, c) ==
    IF parts = <<>> THEN <<>>
    ELSE IF Len(parts) = 1 THEN parts[1]
    ELSE parts[1] \o <<c>> \o Join(Tail(parts), c)

\* str.replace(a, b) for one-character a and b
Replace(s, a, b) == [i \in 1..Len(s) |-> IF s[i] = a THEN b ELSE s[i]]

\* str.isdigit()
IsDigit(s) == s # <<>> /\ \A i \in 1..Len(s) : s[i] \in Digits

\* int(s) of a string of decimal digits
RECURSIVE IntOfDigits(_)
IntOfDigits(s) ==
    IF s = <<>> THEN 0
    ELSE 10 * IntOfDigits(SubSeq(s, 1, Len(s) - 1)) + DigitVal(s[Len(s)])

StartsWith(s, c) == s # <<>> /\ s[1] = c

-----------------------------------------------------------------------------
(* Python values *)

PyVal(tag, i, str, dict, list) == [t |-> tag, n |-> i, s |-> str, d |-> dict, l |-> list]

PyTrue == PyVal("bool", 1, <<>>, {}, <<>>)
PyFalse == PyVal("bool", 0, <<>>, {}, <<>>)
PyNone == PyVal("none", 0, <<>>, {}, <<>>)
PyInt(i) == PyVal("int", i, <<>>, {}, <<>>)
PyStr(x) == PyVal("str", 0, x, {}, <<>>)
\* a dict is the set of its <<key, value>> items
PyDict(items) == PyVal("dict", 0, <<>>, items, <<>>)
\* a list of objects, each given by its name
PyList(names) == PyVal("list", 0, <<>>, {}, names)
Raise(e) == PyVal(e, 0, <<>>, {}, <<>>)

Exceptions == {"AttributeError", "IndexError", "NameError", "ValueError"}
Raised(r) == r.t \in Exceptions

DictHas(items, k) == \E p \in items : p[1] = k
DictGet(items, k) == (CHOOSE p \in items : p[1] = k)[2]
DictUpdate(items, k, v) == {p \in items : p[1] # k} \cup {<<k, v>>}

ON == <<"o", "n">>
OFF == <<"o", "f", "f">>
NONE == <<"n", "o", "n", "e">>

\* TmuxObject.to_pyval
to_pyval(val) ==
    IF val = ON THEN PyTrue
    ELSE IF val = OFF THEN PyFalse
    ELSE IF val = NONE THEN PyNone
    ELSE IF IsDigit(val) THEN PyInt(IntOfDigits(val))
    ELSE PyStr(val)

\* TmuxObject.to_tmuxval: the int branch evaluates str(x) with x unbound
to_tmuxval(val) ==
    IF val = PyTrue THEN PyStr(ON)
    ELSE IF val = PyFalse THEN PyStr(OFF)
    ELSE IF val = PyNone THEN PyStr(NONE)
    ELSE IF val.t = "int" THEN Raise("NameError")
    ELSE val

-----------------------------------------------------------------------------
(* The words of the tmux command line the library uses *)

TARGET == <<"t", "a", "r", "g", "e", "t">>
GLOBAL_ == <<"g", "l", "o", "b", "a", "l", "_">>
DASH_T == <<"-", "t">>
DASH_G == <<"-", "g">>
SET_OPTION == <<"s", "e", "t", "-", "o", "p", "t", "i", "o", "n">>
SHOW_OPTIONS == <<"s", "h", "o", "w", "-", "o", "p", "t", "i", "o", "n", "s">>
RENAME_SESSION == <<"r", "e", "n", "a", "m", "e", "-", "s", "e", "s", "s", "i", "o", "n">>
LIST_SESSIONS == <<"l", "i", "s", "t", "-", "s", "e", "s", "s", "i", "o", "n", "s">>
LIST_WINDOWS == <<"l", "i", "s", "t", "-", "w", "i", "n", "d", "o", "w", "s">>
KILL_SESSION == <<"k", "i", "l", "l", "-", "s", "e", "s", "s", "i", "o", "n">>
HAS_SESSION == <<"h", "a", "s", "_", "s", "e", "s", "s", "i", "o", "n">>
ATTACH_SESSION == <<"a", "t", "t", "a", "c", "h", "-", "s", "e", "s", "s", "i", "o", "n">>
LIST_CLIENTS == <<"l", "i", "s", "t", "-", "c", "l", "i", "e", "n", "t", "s">>
LOCK_SESSION == <<"l", "o", "c", "k", "-", "s", "e", "s", "s", "i", "o", "n">>
LIST_BINDINGS == <<"l", "i", "s", "t", "-", "b", "i", "n", "d", "i", "n", "g", "s">>
NEXT_WINDOW == <<"n", "e", "x", "t", "-", "w", "i", "n", "d", "o", "w">>
PREVIOUS_WINDOW == <<"p", "r", "e", "v", "i", "o", "u", "s", "-", "w", "i", "n", "d", "o", "w">>
SELECT_WINDOW == <<"s", "e", "l", "e", "c", "t", "-", "w", "i", "n", "d", "o", "w">>
CHOOSE_CLIENT == <<"c", "h", "o", "o", "s", "e", "-", "c", "l", "i", "e", "n", "t">>
CHOOSE_SESSION == <<"c", "h", "o", "o", "s", "e", "-", "s", "e", "s", "s", "i", "o", "n">>
CHOOSE_WINDOW == <<"c", "h", "o", "o", "s", "e", "-", "w", "i", "n", "d", "o", "w">>
DISPLAY_PANES == <<"d", "i", "s", "p", "l", "a", "y", "-", "p", "a", "n", "e", "s">>
KILL_WINDOW == <<"k", "i", "l", "l", "-", "w", "i", "n", "d", "o", "w">>
LAST_PANE == <<"l", "a", "s", "t", "-", "p", "a", "n", "e">>
NEXT_LAYOUT == <<"n", "e", "x", "t", "-", "l", "a", "y", "o", "u", "t">>
PREVIOUS_LAYOUT == <<"p", "r", "e", "v", "i", "o", "u", "s", "-", "l", "a", "y", "o", "u", "t">>
RESPAWN_WINDOW == <<"r", "e", "s", "p", "a", "w", "n", "-", "w", "i", "n", "d", "o", "w">>
ROTATE_WINDOW == <<"r", "o", "t", "a", "t", "e", "-", "w", "i", "n", "d", "o", "w">>
SELECT_LAYOUT == <<"s", "e", "l", "e", "c", "t", "-", "l", "a", "y", "o", "u", "t">>
UNLINK_WINDOW == <<"u", "n", "l", "i", "n", "k", "-", "w", "i", "n", "d", "o", "w">>
SET_WINDOW_OPTION == <<"s", "e", "t", "-", "w", "i", "n", "d", "o", "w", "-", "o", "p", "t", "i", "o", "n">>
FIND_WINDOW == <<"f", "i", "n", "d", "-", "w", "i", "n", "d", "o", "w">>
SHOW_WINDOW_OPTIONS == <<"s", "h", "o", "w", "-", "w", "i", "n", "d", "o", "w", "-", "o", "p", "t", "i", "o", "n", "s">>

-----------------------------------------------------------------------------
(* The tmux server, as far as the library's commands reach it.              *)
(* A server state is a record [name, opts, glob]: the name of each session  *)
(* (Absent when the session does not exist), each session's own options     *)
(* and the global options (Unset when an option has no value there).        *)

NumSessions == 2
SessIds == 1..NumSessions

Absent == <<"$absent">>
Unset == <<"$unset">>

\* the session options the server knows, in the order it lists them
S_K == <<"s", "-", "k">>
BG == <<"b", "g">>
OptTable == <<S_K, BG>>
KnownOptions == {OptTable[i] : i \in 1..Len(OptTable)}

\* the windows of every session
WindowNums == <<0, 1>>

DigitChar(i) == CHOOSE c \in Digits : DigitVal(c) = i

IsPrefix(p, x) == Len(p) <= Len(x) /\ SubSeq(x, 1, Len(p)) = p

\* getopt over the words after the command name: -t takes an argument, -g is
\* a flag, and the first word that is not an option ends the options
RECURSIVE Getopt(_, _)
Getopt(words, acc) ==
    IF words = <<>> THEN acc
    ELSE IF Head(words) = DASH_T
    THEN IF Len(words) >= 2
         THEN Getopt(Tail(Tail(words)), [acc EXCEPT !.t = <<words[2]>>])
         ELSE [acc EXCEPT !.bad = TRUE]
    ELSE IF Head(words) = DASH_G THEN Getopt(Tail(words), [acc EXCEPT !.g = TRUE])
    ELSE IF StartsWith(Head(words), "-") THEN [acc EXCEPT !.bad = TRUE]
    ELSE [acc EXCEPT !.pos = words]

NoOpts == [t |-> <<>>, g |-> FALSE, bad |-> FALSE, pos |-> <<>>]

\* the session a target names: the exact name, else the only session the
\* target is a prefix of; 0 when there is none
FindSession(srv, target) ==
    LET exact == {i \in SessIds : srv.name[i] = target}
        prefix == {i \in SessIds : srv.name[i] # Absent /\ IsPrefix(target, srv.name[i])}
    IN  IF exact # {} THEN CHOOSE i \in exact : TRUE
        ELSE IF Cardinality(prefix) = 1 THEN CHOOSE i \in prefix : TRUE
        ELSE 0

\* the session a command without -t acts on
CurrentSession(srv) ==
    LET live == {i \in SessIds : srv.name[i] # Absent}
    IN  IF live = {} THEN 0 ELSE CHOOSE i \in live : \A j \in live : i <= j

TargetSession(srv, o) ==
    IF o.t = <<>> THEN CurrentSession(srv) ELSE FindSession(srv, PartitionHead(o.t[1], ":"))

ValidSessionName(n) == n # <<>> /\ Find(n, ":") = 0 /\ Find(n, ".") = 0

\* show-options: one line "<name> <value>" per option that has a value
RECURSIVE RenderOptions(_, _)
RenderOptions(table, i) ==
    IF i > Len(OptTable) THEN <<>>
    ELSE (IF table[OptTable[i]] = Unset THEN <<>>
          ELSE OptTable[i] \o <<SP>> \o table[OptTable[i]] \o <<NL>>)
         \o RenderOptions(table, i + 1)

\* list-sessions: one line "<name>: <n> windows" per session
RECURSIVE RenderSessions(_, _)
RenderSessions(srv, i) ==
    IF i > NumSessions THEN <<>>
    ELSE (IF srv.name[i] = Absent THEN <<>>
          ELSE srv.name[i] \o <<":", SP, DigitChar(Len(WindowNums)), SP, "w">> \o <<NL>>)
         \o RenderSessions(srv, i + 1)

\* list-windows: one line "<number>: sh" per window
RECURSIVE RenderWindows(_)
RenderWindows(i) ==
    IF i > Len(WindowNums) THEN <<>>
    ELSE <<DigitChar(WindowNums[i]), ":", SP, "s", "h", NL>> \o RenderWindows(i + 1)

NoOptions == [o \in KnownOptions |-> Unset]

\* the global window options; no window has options of its own
WindowGlobal == [NoOptions EXCEPT ![S_K] = <<"v", "i">>]

\* one tmux invocation: the server state after it and its standard output
\* (a command the server refuses changes nothing and prints to stderr only)
Exec(srv, av) ==
    LET c == av[1]
        o == Getopt(Tail(av), NoOpts)
        sid == TargetSession(srv, o)
        quiet == [srv |-> srv, out |-> <<>>]
    IN  IF o.bad THEN quiet
        ELSE IF c = LIST_SESSIONS THEN [srv |-> srv, out |-> RenderSessions(srv, 1)]
        ELSE IF c = SET_OPTION
        THEN IF Len(o.pos) # 2 \/ o.pos[1] \notin KnownOptions THEN quiet
             ELSE IF o.g
             THEN [srv |-> [srv EXCEPT !.glob[o.pos[1]] = o.pos[2]], out |-> <<>>]
             ELSE IF sid = 0 THEN quiet
             ELSE [srv |-> [srv EXCEPT !.opts[sid][o.pos[1]] = o.pos[2]], out |-> <<>>]
        ELSE IF c = SHOW_OPTIONS
        THEN IF o.g THEN [srv |-> srv, out |-> RenderOptions(srv.glob, 1)]
             ELSE IF sid = 0 THEN quiet
             ELSE [srv |-> srv, out |-> RenderOptions(srv.opts[sid], 1)]
        ELSE IF c = RENAME_SESSION
        THEN IF Len(o.pos) # 1 \/ sid = 0 \/ ~ValidSessionName(o.pos[1])
                \/ (\E i \in SessIds : srv.name[i] = o.pos[1])
             THEN quiet
             ELSE [srv |-> [srv EXCEPT !.name[sid] = o.pos[1]], out |-> <<>>]
        ELSE IF c = SHOW_WINDOW_OPTIONS
        THEN IF o.g THEN [srv |-> srv, out |-> RenderOptions(WindowGlobal, 1)] ELSE quiet
        ELSE IF c = LIST_WINDOWS
        THEN IF sid = 0 THEN quiet ELSE [srv |-> srv, out |-> RenderWindows(1)]
        ELSE IF c = KILL_SESSION
        THEN IF sid = 0 THEN quiet
             ELSE [srv |-> [srv EXCEPT !.name[sid] = Absent, !.opts[sid] = NoOptions],
                   out |-> <<>>]
        ELSE quiet

-----------------------------------------------------------------------------
(* The library.  An operation's outcome is a record [srv, calls, outs,     *)
(* val]: the server state after it, the tmux invocations it made, their    *)
(* standard outputs, and the value it returned or the exception it raised. *)
(* An object is [cls, name, num]: a Session has a _name; a Window has the  *)
(* name of its parent session and its _num, and no _name of its own.       *)

SessionObj(n) == [cls |-> "Session", name |-> n, num |-> 0]
WindowObj(parent, k) == [cls |-> "Window", name |-> parent, num |-> k]

Outcome(srv, calls, outs, val) == [srv |-> srv, calls |-> calls, outs |-> outs, val |-> val]

\* the flag of one keyword: '-' and the first letter, or the keyword itself
FlagOf(k) == IF Len(k) > 1 /\ ~StartsWith(k, "-") THEN <<"-", k[1]>> ELSE k

\* TmuxCmd.kwargs_to_flags; items are the dict's <<key, value>> pairs in
\* the order the dict iterates them
RECURSIVE kwargs_to_flags(_)
kwargs_to_flags(items) ==
    IF items = <<>> THEN <<>>
    ELSE LET k == items[1][1]
             v == items[1][2]
             rest == kwargs_to_flags(Tail(items))
         IN  IF v = PyFalse THEN rest
             ELSE LET w == IF v = PyTrue THEN <<>> ELSE v.s
                  IN  SelectSeq(<<FlagOf(k), w>>, LAMBDA x : Len(x) > 0) \o rest

\* the member of a one-element set; {F(x) : x \in {e}} computes e once
The(set) == CHOOSE x \in set : TRUE

\* what TmuxCmd.cmd returns for a standard output
CmdResult(out) == IF out = <<>> THEN PyNone ELSE PyStr(Strip(out))

\* TmuxCmd.cmd
TmuxCmd_cmd(srv, args, items) ==
    LET av == <<args[1]>> \o kwargs_to_flags(items) \o Tail(args)
    IN  The({Outcome(r.srv, <<av>>, <<r.out>>, CmdResult(r.out)) : r \in {Exec(srv, av)}})

\* whether self._name is set: Window.__init__ sets _parent_session and _num only
HasName(obj) == obj.cls = "Session"

\* the name property of Session and of Window
ObjName(obj) ==
    IF obj.cls = "Session" THEN obj.name
    ELSE obj.name \o <<":">> \o <<DigitChar(obj.num)>>

\* TmuxObject.cmd; targetFirst is the place of 'target' in the dict's order
TmuxObject_cmd(srv, obj, args, items, targetFirst) ==
    IF ~HasName(obj) THEN Outcome(srv, <<>>, <<>>, Raise("AttributeError"))
    ELSE LET t == <<TARGET, PyStr(obj.name)>>
         IN  TmuxCmd_cmd(srv, args, IF targetFirst THEN <<t>> \o items ELSE items \o <<t>>)

\* the loop of show_options, were it to keep only the first word of a value
RECURSIVE FoldOptionsFirstWord(_, _)
FoldOptionsFirstWord(lines, dict) ==
    IF lines = <<>> THEN PyDict(dict)
    ELSE LET opt == Split(Head(lines), SP)
         IN  IF Len(opt) < 2 THEN Raise("IndexError")
             ELSE FoldOptionsFirstWord(Tail(lines), DictUpdate(dict, opt[1], to_pyval(opt[2])))

\* the loop of show_options over the split lines
RECURSIVE FoldOptions(_, _)
FoldOptions(lines, dict) ==
    IF lines = <<>> THEN PyDict(dict)
    ELSE LET words == Split(Head(lines), SP)
             opt == IF Len(words) > 2 THEN <<words[1], Join(Tail(words), SP)>> ELSE words
         IN  IF Len(opt) < 2 THEN Raise("IndexError")
             ELSE FoldOptions(Tail(lines), DictUpdate(dict, opt[1], to_pyval(opt[2])))

\* TmuxObject.show_options, from the value self.cmd returned
ParseOptions(optlist) ==
    IF optlist = PyNone THEN PyDict({}) ELSE FoldOptions(Split(optlist.s, NL), {})

OptionsCmd(obj) == IF obj.cls = "Session" THEN SHOW_OPTIONS ELSE SHOW_WINDOW_OPTIONS

\* Session.show_options and Window.show_options
show_options(srv, obj, global_, targetFirst) ==
    The({IF Raised(r.val) THEN r ELSE [r EXCEPT !.val = ParseOptions(r.val)] :
         r \in {TmuxObject_cmd(srv, obj, <<OptionsCmd(obj)>>,
                               << <<GLOBAL_, IF global_ THEN PyTrue ELSE PyFalse>> >>,
                               targetFirst)}})

\* the tmux name of an option attribute, were the underscores kept
OptionNameUnderscored(attr) == attr

\* the tmux name of an option attribute
OptionName(attr) == Replace(attr, "_", "-")

\* the order in which __getattr__ consults the two dictionaries
Lookup(attr, instopts, globalopts) ==
    IF DictHas(instopts, attr) THEN DictGet(instopts, attr)
    ELSE IF DictHas(globalopts, attr) THEN DictGet(globalopts, attr)
    ELSE Raise("AttributeError")

\* __getattr__ after instopts = self.show_options() returned inst
GetattrGlobal(inst, obj, attr, targetFirst) ==
    The({IF Raised(glob.val)
         THEN Outcome(glob.srv, inst.calls \o glob.calls, inst.outs \o glob.outs, glob.val)
         ELSE Outcome(glob.srv, inst.calls \o glob.calls, inst.outs \o glob.outs,
                      Lookup(OptionName(attr), inst.val.d, glob.val.d)) :
         glob \in {show_options(inst.srv, obj, TRUE, targetFirst)}})

\* TmuxObject.__getattr__
getattr(srv, obj, attr, targetFirst) ==
    IF StartsWith(attr, "_") THEN Outcome(srv, <<>>, <<>>, Raise("AttributeError"))
    ELSE The({IF Raised(inst.val) THEN inst ELSE GetattrGlobal(inst, obj, attr, targetFirst) :
              inst \in {show_options(srv, obj, FALSE, targetFirst)}})

\* the command set_option runs: Session has the installed set-option method,
\* Window.set_option calls the installed set-window-option method
SetOptionCmd(obj) == IF obj.cls = "Session" THEN SET_OPTION ELSE SET_WINDOW_OPTION

\* TmuxCmd.__call__ of an installed command method
TmuxCmd_call(srv, obj, cmd, args, items, targetFirst) ==
    TmuxObject_cmd(srv, obj, <<cmd>> \o args, items, targetFirst)

\* TmuxObject.__setattr__ for an attribute that does not start with '_'
setattr(srv, obj, attr, value) ==
    LET tv == to_tmuxval(value)
    IN  IF Raised(tv) THEN Outcome(srv, <<>>, <<>>, tv)
        ELSE The({IF Raised(r.val) THEN r ELSE [r EXCEPT !.val = PyNone] :
                  r \in {TmuxCmd_call(srv, obj, SetOptionCmd(obj),
                                      <<OptionName(attr), tv.s>>, <<>>, TRUE)}})

\* Session.rename_session: the outcome and the new _name
rename_session(srv, obj, newname) == TmuxObject_cmd(srv, obj, <<RENAME_SESSION, newname>>, <<>>, TRUE)

\* the names of the lines of a listing: the text before the first ':'
LineNames(listing) ==
    LET lines == Split(listing, NL) IN [i \in 1..Len(lines) |-> PartitionHead(lines[i], ":")]

\* Session.all_objs
all_objs(srv) ==
    The({IF r.val = PyNone THEN [r EXCEPT !.val = PyList(<<>>)]
         ELSE [r EXCEPT !.val = PyList(LineNames(r.val.s))] :
         r \in {TmuxCmd_cmd(srv, <<LIST_SESSIONS>>, <<>>)}})

\* the window numbers of a listing: int() of the text before the first ':'
WindowNumbers(listing) ==
    The({IF \E i \in 1..Len(nums) : ~IsDigit(nums[i]) THEN Raise("ValueError")
         ELSE PyList([i \in 1..Len(nums) |-> IntOfDigits(nums[i])]) :
         nums \in {LineNames(listing)}})

\* Session.windows: the numbers of the Window objects it yields
windows(srv, obj) ==
    The({IF Raised(r.val) THEN r
         ELSE IF r.val = PyNone THEN [r EXCEPT !.val = PyList(<<>>)]
         ELSE [r EXCEPT !.val = WindowNumbers(r.val.s)] :
         r \in {TmuxObject_cmd(srv, obj, <<LIST_WINDOWS>>, <<>>, TRUE)}})

-----------------------------------------------------------------------------
(* Command methods *)

\* Session._supported_cmds
SessionCmds ==
    <<LIST_WINDOWS, KILL_SESSION, HAS_SESSION, ATTACH_SESSION, LIST_CLIENTS, LOCK_SESSION,
      LIST_BINDINGS, NEXT_WINDOW, PREVIOUS_WINDOW, SELECT_WINDOW, SET_OPTION, SHOW_OPTIONS>>

\* Window._supported_cmds
WindowCmds ==
    <<CHOOSE_CLIENT, CHOOSE_SESSION, CHOOSE_WINDOW, DISPLAY_PANES, KILL_WINDOW, LAST_PANE,
      NEXT_LAYOUT, PREVIOUS_LAYOUT, RESPAWN_WINDOW, ROTATE_WINDOW, SELECT_LAYOUT,
      SELECT_WINDOW, UNLINK_WINDOW, SET_WINDOW_OPTION, FIND_WINDOW>>

\* TmuxObject.normalizecmd_name
normalizecmd_name(name) == Replace(name, "-", "_")

\* the attributes of the classes that a normalized command name meets:
\* Session defines list_windows and show_options itself
ClassAttrs(cls) ==
    IF cls = "Session" THEN {normalizecmd_name(LIST_WINDOWS), normalizecmd_name(SHOW_OPTIONS)}
    ELSE {}

\* TmuxObject.__init__: the commands installed as methods of an object;
\* hasattr is False for every name the class does not define, because
\* __getattr__ raises before _name is set
InstalledCmds(cls) ==
    LET cmds == IF cls = "Session" THEN SessionCmds ELSE WindowCmds
    IN  {cmds[i] : i \in {j \in 1..Len(cmds) : normalizecmd_name(cmds[j]) \notin ClassAttrs(cls)}}

-----------------------------------------------------------------------------
(* Inputs *)

A == <<"a">>
B == <<"b">>
AB == <<"a", "b">>
SA == <<SP, "a">>
NameTable == <<A, B, AB, SA>>
Names == {NameTable[i] : i \in 1..Len(NameTable)}

S_K_ATTR == <<"s", "_", "k">>
Attrs == {S_K_ATTR, BG}

VI == <<"v", "i">>
A_B == <<"a", SP, "b">>
EMPTY == <<>>
X_SP == <<"x", SP>>
A_NL_B == <<"a", NL, "b">>
StrValues == {ON, A_B, EMPTY, X_SP, A_NL_B}
AttrValues == {PyStr(v) : v \in StrValues} \cup {PyTrue, PyInt(7)}

\* calls of command methods: <<command, positional arguments, keyword items>>
GlobalKw == << <<GLOBAL_, PyTrue>> >>
SessionCalls ==
    { <<KILL_SESSION, <<>>, <<>>>>, <<NEXT_WINDOW, <<>>, <<>>>>, <<SELECT_WINDOW, <<VI>>, <<>>>>,
      <<LIST_WINDOWS, <<>>, <<>>>> }
OptionCalls ==
    { <<SET_OPTION, <<BG, EMPTY>>, GlobalKw>>, <<SET_OPTION, <<BG, ON>>, GlobalKw>> }
WindowCalls ==
    { <<KILL_WINDOW, <<>>, <<>>>>, <<SELECT_LAYOUT, <<VI>>, <<>>>>, <<LIST_WINDOWS, <<>>, <<>>>> }

-----------------------------------------------------------------------------
(* The state machine *)

Srv == [name |-> srvName, opts |-> srvOpts, glob |-> srvGlobal]

S == SessionObj(pyName)
W(k) == WindowObj(pyName, pyWins[k])

\* the record of an operation: its name, the object it was called on (with
\* the object's name at the call), its arguments, and the server session
\* the object's name resolved to at the call (0 when none)
Op(name, obj, attr, val, args) ==
    [name |-> name, obj |-> obj, objname |-> ObjName(obj), attr |-> attr, val |-> val,
     args |-> args, ref |-> FindSession(Srv, PartitionHead(ObjName(obj), ":"))]

NoOp == [name |-> "init", obj |-> SessionObj(<<>>), objname |-> <<>>, attr |-> <<>>,
         val |-> PyNone, args |-> <<>>, ref |-> 0]

Commit(r) ==
    /\ srvName' = r.srv.name
    /\ srvOpts' = r.srv.opts
    /\ srvGlobal' = r.srv.glob
    /\ argv' = r.calls
    /\ stdout' = r.outs
    /\ ret' = r.val

\* s.<attr> = value
SetAttr(attr, value) ==
    /\ op' = Op("setattr", S, attr, value, <<>>)
    /\ \E r \in {setattr(Srv, S, attr, value)} : Commit(r)
    /\ UNCHANGED <<pyName, pyWins>>

\* s._name = n, the branch of __setattr__ for names that start with '_'
SetName(n) ==
    /\ pyName' = n
    /\ op' = Op("setname", S, <<"_", "n", "a", "m", "e">>, PyStr(n), <<>>)
    /\ argv' = <<>> /\ stdout' = <<>> /\ ret' = PyNone
    /\ UNCHANGED <<srvName, srvOpts, srvGlobal, pyWins>>

\* s.<attr>
GetAttr(attr, targetFirst) ==
    /\ op' = Op("getattr", S, attr, PyNone, <<>>)
    /\ \E r \in {getattr(Srv, S, attr, targetFirst)} : Commit(r)
    /\ UNCHANGED <<pyName, pyWins>>

\* s.<command method>(*args, **kwargs)
SessionMethod(call, targetFirst) ==
    /\ call[1] \in InstalledCmds("Session")
    /\ op' = Op("method", S, call[1], PyNone, call[2])
    /\ \E r \in {TmuxCmd_call(Srv, S, call[1], call[2], call[3], targetFirst)} : Commit(r)
    /\ UNCHANGED <<pyName, pyWins>>

\* s.cmd(command, *args)
SessionCmd(call) ==
    /\ op' = Op("cmd", S, call[1], PyNone, call[2])
    /\ \E r \in {TmuxObject_cmd(Srv, S, <<call[1]>> \o call[2], <<>>, TRUE)} : Commit(r)
    /\ UNCHANGED <<pyName, pyWins>>

\* s.rename_session(n)
Rename(n) ==
    \E r \in {rename_session(Srv, S, n)} :
        /\ op' = Op("rename_session", S, <<>>, PyStr(n), <<n>>)
        /\ Commit([r EXCEPT !.val = IF Raised(r.val) THEN r.val ELSE PyNone])
        /\ pyName' = IF Raised(r.val) THEN pyName ELSE n
        /\ UNCHANGED pyWins

\* Session.all_objs(), list(Session), Session.all_sessions(), Session.list_sessions()
AllObjs ==
    /\ op' = Op("all_objs", S, <<>>, PyNone, <<>>)
    /\ \E r \in {all_objs(Srv)} : Commit(r)
    /\ UNCHANGED <<pyName, pyWins>>

\* ws = s.list_windows()
Windows ==
    \E r \in {windows(Srv, S)} :
        /\ op' = Op("windows", S, <<>>, PyNone, <<>>)
        /\ Commit(r)
        /\ pyWins' = IF Raised(r.val) THEN pyWins ELSE r.val.l
        /\ UNCHANGED pyName

\* ws[k].cmd(command, *args)
WindowCmd(k, call) ==
    /\ k \in 1..Len(pyWins)
    /\ op' = Op("cmd", W(k), call[1], PyNone, call[2])
    /\ \E r \in {TmuxObject_cmd(Srv, W(k), <<call[1]>> \o call[2], <<>>, TRUE)} : Commit(r)
    /\ UNCHANGED <<pyName, pyWins>>

\* ws[k].<command method>(*args)
WindowMethod(k, call) ==
    /\ k \in 1..Len(pyWins)
    /\ call[1] \in InstalledCmds("Window")
    /\ op' = Op("method", W(k), call[1], PyNone, call[2])
    /\ \E r \in {TmuxCmd_call(Srv, W(k), call[1], call[2], call[3], TRUE)} : Commit(r)
    /\ UNCHANGED <<pyName, pyWins>>

\* ws[k].<attr>
WindowGetAttr(k, attr) ==
    /\ k \in 1..Len(pyWins)
    /\ op' = Op("getattr", W(k), attr, PyNone, <<>>)
    /\ \E r \in {getattr(Srv, W(k), attr, TRUE)} : Commit(r)
    /\ UNCHANGED <<pyName, pyWins>>

\* ws[k].<attr> = value
WindowSetAttr(k, attr, value) ==
    /\ k \in 1..Len(pyWins)
    /\ op' = Op("setattr", W(k), attr, value, <<>>)
    /\ \E r \in {setattr(Srv, W(k), attr, value)} : Commit(r)
    /\ UNCHANGED <<pyName, pyWins>>

-----------------------------------------------------------------------------
(* Specifications *)

InitServer ==
    /\ srvName = [i \in SessIds |-> NameTable[i]]
    /\ srvOpts = [i \in SessIds |-> NoOptions]
    /\ srvGlobal = [NoOptions EXCEPT ![S_K] = VI]

InitClient ==
    /\ pyName = A
    /\ pyWins = <<>>
    /\ op = NoOp
    /\ argv = <<>>
    /\ stdout = <<>>
    /\ ret = PyNone

\* Sessions, their names and the commands run on them
Init == InitServer /\ InitClient

Next ==
    \/ \E n \in Names : SetName(n)
    \/ \E n \in Names : Rename(n)
    \/ AllObjs
    \/ Windows
    \/ \E c \in SessionCalls : SessionCmd(c)
    \/ \E c \in SessionCalls : SessionMethod(c, TRUE)
    \/ \E k \in 1..Len(WindowNums), c \in WindowCalls : WindowCmd(k, c)
    \/ \E k \in 1..Len(WindowNums), c \in WindowCalls : WindowMethod(k, c)

Spec == Init /\ [][Next]_vars

\* Option attributes: s is the Session of one of the server's sessions, and
\* every other session has an option of its own
InitOptions ==
    /\ srvName = [i \in SessIds |-> NameTable[i]]
    /\ \E i \in SessIds :
          /\ pyName = NameTable[i]
          /\ srvOpts = [j \in SessIds |->
                          IF j = i THEN NoOptions ELSE [NoOptions EXCEPT ![BG] = VI]]
    /\ srvGlobal = [NoOptions EXCEPT ![S_K] = VI]
    /\ pyWins = <<>>
    /\ op = NoOp
    /\ argv = <<>>
    /\ stdout = <<>>
    /\ ret = PyNone

NextOptions ==
    \/ \E a \in Attrs, v \in AttrValues : SetAttr(a, v)
    \/ \E a \in Attrs, tf \in BOOLEAN : GetAttr(a, tf)
    \/ \E c \in OptionCalls, tf \in BOOLEAN : SessionMethod(c, tf)
    \/ Windows
    \/ \E k \in 1..Len(WindowNums), a \in Attrs : WindowGetAttr(k, a)
    \/ \E k \in 1..Len(WindowNums), a \in Attrs, v \in {PyStr(ON), PyInt(7)} :
          WindowSetAttr(k, a, v)

SpecOptions == InitOptions /\ [][NextOptions]_vars

\* to_pyval on every value over a small alphabet
PyvalAlphabet == {"o", "n", "f", "e", "1", "0", "-"}

InitPyval ==
    /\ InitServer
    /\ pyName = A
    /\ pyWins = <<>>
    /\ \E v \in Texts(PyvalAlphabet, MaxValLen) : op = [NoOp EXCEPT !.name = "value", !.attr = v]
    /\ argv = <<>>
    /\ stdout = <<>>
    /\ ret = PyNone

ToPyval ==
    /\ op.name = "value"
    /\ op' = [op EXCEPT !.name = "to_pyval"]
    /\ ret' = to_pyval(op.attr)
    /\ UNCHANGED <<srvName, srvOpts, srvGlobal, pyName, pyWins, argv, stdout>>

NextPyval == ToPyval

SpecPyval == InitPyval /\ [][NextPyval]_vars

\* show_options on every output of the options command over a small alphabet
OutAlphabet == {"a", "1", SP, NL}

InitParse ==
    /\ InitServer
    /\ pyName = A
    /\ pyWins = <<>>
    /\ op = [NoOp EXCEPT !.name = "output"]
    /\ argv = << <<SHOW_OPTIONS, DASH_T, A>> >>
    /\ stdout \in {<<out>> : out \in Texts(OutAlphabet, MaxOutLen)}
    /\ ret = PyNone

\* s.show_options(), from the point where tmux has printed stdout[1]
ShowOptionsOf ==
    /\ op.name = "output"
    /\ op' = [op EXCEPT !.name = "show_options"]
    /\ ret' = ParseOptions(CmdResult(stdout[1]))
    /\ UNCHANGED <<srvName, srvOpts, srvGlobal, pyName, pyWins, argv, stdout>>

NextParse == ShowOptionsOf

SpecParse == InitParse /\ [][NextParse]_vars

-----------------------------------------------------------------------------
(* Properties *)

\* the lines of a text: the pieces between newlines, a final newline ending
\* the last line
Lines(text) ==
    IF text = <<>> THEN <<>>
    ELSE The({IF parts[Len(parts)] = <<>> THEN SubSeq(parts, 1, Len(parts) - 1) ELSE parts :
              parts \in {Split(text, NL)}})

\* the text of a line after its first space
RestOf(line) ==
    IF Find(line, SP) = 0 THEN <<>> ELSE SubSeq(line, Find(line, SP) + 1, Len(line))

\* a value the options listing shows whole: not empty, no newline in it, no
\* white space at its end
ListsWhole(v) == v # <<>> /\ Find(v, NL) = 0 /\ ~IsSpace(v[Len(v)])

\* every value of an options table lists whole
TableListsWhole(table) == \A o \in KnownOptions : table[o] = Unset \/ ListsWhole(table[o])

\* the session of the server named n, 0 when there is none
SessionNamed(n) == IF \E i \in SessIds : srvName[i] = n
                   THEN CHOOSE i \in SessIds : srvName[i] = n ELSE 0

\* C5: to_pyval maps 'on' to True, 'off' to False, 'none' to None, every
\* value that is an integer (decimal digits, with or without a minus sign)
\* to that int, and returns every other value unchanged.
IsInteger(val) == IsDigit(val) \/ (StartsWith(val, "-") /\ IsDigit(Tail(val)))
IntOf(val) == IF StartsWith(val, "-") THEN 0 - IntOfDigits(Tail(val)) ELSE IntOfDigits(val)
C5_ToPyvalMapsIntegers ==
    op.name = "to_pyval" =>
        ret = IF op.attr = ON THEN PyTrue
              ELSE IF op.attr = OFF THEN PyFalse
              ELSE IF op.attr = NONE THEN PyNone
              ELSE IF IsInteger(op.attr) THEN PyInt(IntOf(op.attr))
              ELSE PyStr(op.attr)

\* what show_options is said to return for an output: one entry per line,
\* keyed by the text before the first space, with to_pyval of the rest
EntriesOf(out) ==
    {<<PartitionHead(Lines(out)[i], SP), to_pyval(RestOf(Lines(out)[i]))>> :
        i \in 1..Len(Lines(out))}

\* C6 as stated: for every output of the options command, show_options
\* returns a dictionary with exactly one entry per output line, keyed by the
\* text before the first space, whose value is to_pyval of the rest of the
\* line; the empty dictionary when the output is empty.
C6_OneEntryPerLine ==
    op.name = "show_options" =>
        /\ ret = PyDict(EntriesOf(stdout[1]))
        /\ Cardinality(ret.d) = Len(Lines(stdout[1]))

\* an output show_options reads line by line: every line has a space, no
\* two lines have the same text before it, and the output neither begins
\* nor (before its final newline) ends with white space
ReadableOutput(out) ==
    /\ \A i \in 1..Len(Lines(out)) : Find(Lines(out)[i], SP) > 0
    /\ \A i, j \in 1..Len(Lines(out)) :
          PartitionHead(Lines(out)[i], SP) = PartitionHead(Lines(out)[j], SP) => i = j
    /\ out # <<>> => ~IsSpace(out[1])
    /\ Lines(out) # <<>> => ~IsSpace(Lines(out)[Len(Lines(out))][Len(Lines(out)[Len(Lines(out))])])

\* C6 as amended: the same, for every output that is empty or in which
\* every line has a space, no two lines share the text before their first
\* space, the first line does not begin with white space and the last line
\* does not end with white space.
C6_OneEntryPerReadableLine ==
    (op.name = "show_options" /\ ReadableOutput(stdout[1])) =>
        /\ ret = PyDict(EntriesOf(stdout[1]))
        /\ Cardinality(ret.d) = Len(Lines(stdout[1]))

\* show_options has returned a dictionary of two entries, an int and a
\* string, for an output of two lines
C6_Witness ==
    /\ op.name = "show_options"
    /\ ReadableOutput(stdout[1])
    /\ Len(Lines(stdout[1])) = 2
    /\ ret.t = "dict"
    /\ Cardinality(ret.d) = 2
    /\ \A p \in ret.d : p[1] # <<>>
    /\ \E p, q \in ret.d : p[2].t = "int" /\ q[2] = PyStr(<<"a">>)

\* the server's session that the Session of the last operation named
OpSession == SessionNamed(op.objname)

\* what a read of the option attribute of the last operation returns now
ReadNow(targetFirst) == getattr(Srv, S, op.attr, targetFirst).val

\* the last operation assigned a string to an option attribute of a Session
\* that names a session of the server
AssignedString ==
    /\ op.name = "setattr"
    /\ op.obj.cls = "Session"
    /\ op.val.t = "str"
    /\ OpSession # 0

OwnOptions ==
    IF op.obj.cls = "Session"
    THEN IF op.ref = 0 THEN NoOptions ELSE srvOpts[op.ref]
    ELSE NoOptions
GlobalOptions == IF op.obj.cls = "Session" THEN srvGlobal ELSE WindowGlobal

\* C7, for options whose values list whole: a read of an option attribute
\* of an object returns the value the object's own options hold for the
\* hyphenated name at the time of the read, else the value the global
\* options hold for it, and raises AttributeError when neither holds one.
C7_ReadReturnsServerValue ==
    (op.name = "getattr" /\ TableListsWhole(OwnOptions) /\ TableListsWhole(GlobalOptions)) =>
        ret = IF OwnOptions[Replace(op.attr, "_", "-")] # Unset
              THEN to_pyval(OwnOptions[Replace(op.attr, "_", "-")])
              ELSE IF GlobalOptions[Replace(op.attr, "_", "-")] # Unset
              THEN to_pyval(GlobalOptions[Replace(op.attr, "_", "-")])
              ELSE Raise("AttributeError")

\* the same for the reads of a Session
C7_SessionReadReturnsServerValue ==
    op.obj.cls = "Session" => C7_ReadReturnsServerValue

\* C2: a command executed through an object's cmd() or through one of its
\* installed command methods is one tmux invocation: the command name, the
\* flag '-t', the object's name (the session name of a Session,
\* '<parent session name>:<window number>' of a Window obtained from
\* Session.windows()), then the positional arguments.
C2_CommandRunsOnObject ==
    op.name \in {"cmd", "method"} =>
        argv = << <<op.attr, DASH_T, op.objname>> \o op.args >>

\* the same for the commands of a Session
C2_SessionCommandRunsOnSession ==
    op.obj.cls = "Session" => C2_CommandRunsOnObject

\* C3: after s.rename_session(n), s.name is n, and the server session that
\* s referred to before the call is named n and is the session s refers to.
C3_RenameKeepsReferent ==
    op.name = "rename_session" =>
        /\ pyName = op.args[1]
        /\ op.ref # 0 =>
              /\ srvName[op.ref] = op.args[1]
              /\ FindSession(Srv, pyName) = op.ref

\* C4: Session.all_objs() returns one Session per line of the list-sessions
\* output, in the same order, each named by the text before the first ':'
\* of its line, and none when the output is empty.
C4_OneSessionPerLine ==
    op.name = "all_objs" =>
        ret = PyList([i \in 1..Len(Lines(stdout[1])) |->
                        PartitionHead(Lines(stdout[1])[i], ":")])

====
